---- MODULE Spec2Model ----
(***************************************************************************)
(* High-school name standardisation: normalize_high_schools.py and         *)
(* build_hs_mapping.py, and the paged download of download_nces_data.py.   *)
(* A name is a sequence of one-character strings, so that the regular      *)
(* expressions and substring tests of the scripts are computed character   *)
(* by character.                                                           *)
(***************************************************************************)
EXTENDS Integers, Sequences, FiniteSets, TLC

VARIABLES pc, name, normalized, renormalized, school_type,
          group_df, canonical,
          schools_df, duplicates, duplicates_file, mappings,
          calls, all_mappings,
          page, all_schools, requests, received, last_response, result

vars == <<pc, name, normalized, renormalized, school_type,
          group_df, canonical,
          schools_df, duplicates, duplicates_file, mappings,
          calls, all_mappings,
          page, all_schools, requests, received, last_response, result>>

(***************************************************************************)
(* Characters                                                              *)
(***************************************************************************)

\* The printable ASCII characters in code-point order, 32 (space) to 126; the
\* double quote, the backslash and the backquote, which no name of the model
\* holds, are written by their code points.
AsciiTable ==
  << " ", "!", "<34>", "#", "$", "%", "&", "'", "(", ")", "*", "+", ",", "-", ".", "/",
     "0", "1", "2", "3", "4", "5", "6", "7", "8", "9", ":", ";", "<", "=", ">", "?",
     "@", "A", "B", "C", "D", "E", "F", "G", "H", "I", "J", "K", "L", "M", "N", "O",
     "P", "Q", "R", "S", "T", "U", "V", "W", "X", "Y", "Z", "[", "<92>", "]", "^", "_",
     "<96>", "a", "b", "c", "d", "e", "f", "g", "h", "i", "j", "k", "l", "m", "n", "o",
     "p", "q", "r", "s", "t", "u", "v", "w", "x", "y", "z", "{", "|", "}", "~" >>

\* The control characters that are white space, each with its code point: tab,
\* line feed, vertical tab, form feed, carriage return and the four
\* separators 28 to 31.  Those with no escape are written by their code points.
SpaceControls ==
  { <<"\t", 9>>, <<"\n", 10>>, <<"<11>", 11>>, <<"\f", 12>>, <<"\r", 13>>,
    <<"<28>", 28>>, <<"<29>", 29>>, <<"<30>", 30>>, <<"<31>", 31>> }

\* The code point of a character: Python's ord().
ord ==
  [c \in {AsciiTable[i] : i \in 1..Len(AsciiTable)} \cup {x[1] : x \in SpaceControls} |->
     IF \E x \in SpaceControls : x[1] = c
     THEN (CHOOSE x \in SpaceControls : x[1] = c)[2]
     ELSE 31 + (CHOOSE i \in 1..Len(AsciiTable) : AsciiTable[i] = c)]

\* What \s matches in a str pattern and what str.strip() strips, in the ASCII
\* range: the space and the code points 9 to 13 and 28 to 31.
IsSpace(c) == ord[c] \in {32} \cup (9..13) \cup (28..31)

\* What \w matches (ASCII range); \b lies between a \w and a non-\w character.
IsWord(c) == ord[c] \in (48..57) \cup (65..90) \cup (97..122) \cup {95}

\* str.upper() on one character.
upper_char(c) == IF ord[c] \in 97..122 THEN AsciiTable[ord[c] - 32 - 31] ELSE c

\* str.upper()
upper(s) == [i \in 1..Len(s) |-> upper_char(s[i])]

\* A missing value (None / NaN): what pd.isna() answers True for.
NaN == <<"<NaN>">>

isna(x) == x = NaN

(***************************************************************************)
(* Strings                                                                 *)
(***************************************************************************)

RECURSIVE rstrip(_)
rstrip(s) ==
  IF s # <<>> /\ IsSpace(s[Len(s)]) THEN rstrip(SubSeq(s, 1, Len(s) - 1)) ELSE s

RECURSIVE lstrip(_)
lstrip(s) ==
  IF s # <<>> /\ IsSpace(s[1]) THEN lstrip(Tail(s)) ELSE s

\* str.strip()
strip(s) == lstrip(rstrip(s))

\* s.endswith(t)
EndsWith(s, t) ==
  Len(t) <= Len(s) /\ SubSeq(s, Len(s) - Len(t) + 1, Len(s)) = t

\* t in s
Contains(s, t) ==
  \E i \in 1..(Len(s) - Len(t) + 1) : SubSeq(s, i, i + Len(t) - 1) = t

\* s.count(c) for a one-character c
CountChar(s, c) == Cardinality({i \in 1..Len(s) : s[i] = c})

\* Python's s < t on strings: lexicographic by code point, a proper prefix first.
RECURSIVE StrLess(_, _)
StrLess(s, t) ==
  IF t = <<>> THEN FALSE
  ELSE IF s = <<>> THEN TRUE
  ELSE IF s[1] # t[1] THEN ord[s[1]] < ord[t[1]]
  ELSE StrLess(Tail(s), Tail(t))

SetMax(S) == CHOOSE x \in S : \A y \in S : y <= x

SetMin(S) == CHOOSE x \in S : \A y \in S : x <= y

(***************************************************************************)
(* normalize_hs_name                                                       *)
(***************************************************************************)

\* The suffix patterns in the order the loop tries them.  Each is the list of
\* words of the pattern; every word is preceded by \s+ and the last one is
\* followed by $.
suffixes ==
  << << <<"H", "I", "G", "H">>, <<"S", "C", "H", "O", "O", "L">> >>,
     << <<"H", ".", "S", ".">> >>,
     << <<"H", "S">> >>,
     << <<"H", ".", "S">> >> >>

\* A pattern that asks for no white space before its first word reached:
\* \s*w1\s+w2...$ in place of \s+w1\s+w2...$.
RECURSIVE suffix_start_any_space(_, _)
suffix_start_any_space(words, s) ==
  IF words = <<>> THEN Len(s)
  ELSE LET w == words[Len(words)]
           rest == SubSeq(s, 1, Len(s) - Len(w))
       IN IF ~EndsWith(s, w) \/ (rstrip(rest) = rest /\ Len(words) > 1) THEN -1
          ELSE suffix_start_any_space(SubSeq(words, 1, Len(words) - 1), rstrip(rest))

\* Where a match of the pattern \s+w1\s+w2...$ starts in s, as the length of
\* the text before it; -1 when the pattern does not match.  s never ends in
\* white space here (it was stripped, and a removal ends on a non-space), so
\* $ is the end of s.
RECURSIVE suffix_start(_, _)
suffix_start(words, s) ==
  IF words = <<>> THEN Len(s)
  ELSE LET w == words[Len(words)]
           rest == SubSeq(s, 1, Len(s) - Len(w))
       IN IF ~EndsWith(s, w) \/ rstrip(rest) = rest THEN -1
          ELSE suffix_start(SubSeq(words, 1, Len(words) - 1), rstrip(rest))

\* re.sub(suffix, '', normalized, flags=re.IGNORECASE)
sub_suffix(words, s) ==
  IF suffix_start(words, s) < 0 THEN s ELSE SubSeq(s, 1, suffix_start(words, s))

\* A loop that stops at the first pattern that matches.
RECURSIVE strip_first_suffix(_, _)
strip_first_suffix(s, i) ==
  IF i > Len(suffixes) THEN s
  ELSE IF suffix_start(suffixes[i], s) >= 0 THEN sub_suffix(suffixes[i], s)
  ELSE strip_first_suffix(s, i + 1)

\* for suffix in suffixes: normalized = re.sub(suffix, '', normalized, ...)
\* from the i-th pattern on.
RECURSIVE strip_suffixes(_, _)
strip_suffixes(s, i) ==
  IF i > Len(suffixes) THEN s
  ELSE strip_suffixes(sub_suffix(suffixes[i], s), i + 1)

\* The number of white-space characters of s from position i on.
RECURSIVE space_run(_, _)
space_run(s, i) ==
  IF i <= Len(s) /\ IsSpace(s[i]) THEN 1 + space_run(s, i + 1) ELSE 0

\* The length of the match of \bST\.?\s+ at position i of s, 0 when none.
saint_match(s, i) ==
  IF i + 1 > Len(s) \/ s[i] # "S" \/ s[i + 1] # "T" THEN 0
  ELSE IF i > 1 /\ IsWord(s[i - 1]) THEN 0
  ELSE LET j == IF i + 2 <= Len(s) /\ s[i + 2] = "." THEN i + 3 ELSE i + 2
       IN IF space_run(s, j) = 0 THEN 0 ELSE (j - i) + space_run(s, j)

\* re.sub(r'\bST\.?\s+', 'SAINT ', normalized), from position i on.
RECURSIVE sub_saint(_, _)
sub_saint(s, i) ==
  IF i > Len(s) THEN <<>>
  ELSE IF saint_match(s, i) > 0
       THEN <<"S", "A", "I", "N", "T", " ">> \o sub_saint(s, i + saint_match(s, i))
       ELSE <<s[i]>> \o sub_saint(s, i + 1)

\* re.sub(r'\s*\([^)]+\)$', '', normalized): $ is the end of s, or the place
\* before a final newline; the match starts at the leftmost "(" that has no
\* ")" between it and the closing one, and takes the white space before it.
sub_parenthetical(s) ==
  LET n == Len(s)
      e == IF n >= 1 /\ s[n] = ")" THEN n
           ELSE IF n >= 2 /\ s[n] = "\n" /\ s[n - 1] = ")" THEN n - 1
           ELSE 0
      closes == {k \in 1..(e - 1) : s[k] = ")"}
      p == IF closes = {} THEN 0 ELSE SetMax(closes)
      opens == {j \in (p + 1)..(e - 2) : s[j] = "("}
  IN IF e = 0 \/ opens = {} THEN s
     ELSE rstrip(SubSeq(s, 1, SetMin(opens) - 1)) \o SubSeq(s, e + 1, n)

\* re.sub(r'\s+', ' ', normalized), from position i on.
RECURSIVE collapse_spaces(_, _)
collapse_spaces(s, i) ==
  IF i > Len(s) THEN <<>>
  ELSE IF IsSpace(s[i]) THEN <<" ">> \o collapse_spaces(s, i + space_run(s, i))
  ELSE <<s[i]>> \o collapse_spaces(s, i + 1)

\* A character class without the apostrophe: re.sub(r'[.,]', '', normalized)
remove_periods_commas(s) == SelectSeq(s, LAMBDA c : c \notin {".", ","})

\* re.sub(r'[.,\']', '', normalized)
remove_punct(s) == SelectSeq(s, LAMBDA c : c \notin {".", ",", "'"})

\* The steps of normalize_hs_name after the suffix loop: St./Saint,
\* punctuation, the trailing parenthetical, white space.
after_suffixes(s) ==
  strip(collapse_spaces(sub_parenthetical(remove_punct(sub_saint(s, 1))), 1))

\* normalize_hs_name(name)
normalize_hs_name(n) ==
  IF isna(n) \/ n = <<>> THEN <<>>
  ELSE after_suffixes(strip_suffixes(strip(upper(n)), 1))

(***************************************************************************)
(* categorize_school_type                                                  *)
(***************************************************************************)

prep_patterns == { <<"A", "C", "A", "D", "E", "M", "Y">>, <<"P", "R", "E", "P">>, <<"P", "R", "E", "P", "A", "R", "A", "T", "O", "R", "Y">> }

private_patterns ==
  { <<"S", "A", "I", "N", "T", " ">>, <<"S", "T", ".", " ">>, <<"B", "I", "S", "H", "O", "P", " ">>, <<"C", "A", "T", "H", "O", "L", "I", "C">>, <<"C", "H", "R", "I", "S", "T", "I", "A", "N">>,
    <<"L", "U", "T", "H", "E", "R", "A", "N">>, <<"M", "E", "T", "H", "O", "D", "I", "S", "T">>, <<"B", "A", "P", "T", "I", "S", "T">>, <<"E", "P", "I", "S", "C", "O", "P", "A", "L">> }

international_patterns ==
  { <<"I", "E", "S", " ">>, <<"I", "N", "S", "T", "I", "T", "U", "T">>, <<"L", "Y", "C", "E", "E">>, <<"G", "Y", "M", "N", "A", "S", "I", "U", "M">>, <<"S", "E", "C", "O", "N", "D", "A", "R", "Y", " ", "S", "C", "H", "O", "O", "L">>,
    <<"C", "O", "L", "L", "E", "G", "E", " ">> }

public_patterns ==
  { <<" ", "H", "S">>, <<"H", "I", "G", "H", " ", "S", "C", "H", "O", "O", "L">>, <<"H", ".", "S", ".">>, <<"C", "E", "N", "T", "R", "A", "L">>, <<"E", "A", "S", "T", " ">>, <<"W", "E", "S", "T", " ">>,
    <<"N", "O", "R", "T", "H", " ">>, <<"S", "O", "U", "T", "H", " ">> }

\* any(pattern in name_upper for pattern in patterns)
any_in(patterns, name_upper) == \E p \in patterns : Contains(name_upper, p)

\* The private test made before the prep test.
categorize_private_first(n) ==
  IF isna(n) THEN "unknown"
  ELSE IF any_in(private_patterns, upper(n)) THEN "private"
  ELSE IF any_in(prep_patterns, upper(n)) THEN "prep"
  ELSE IF any_in(international_patterns, upper(n)) THEN "international"
  ELSE IF any_in(public_patterns, upper(n)) THEN "public"
  ELSE "unknown"

\* categorize_school_type(name)
categorize_school_type(n) ==
  IF isna(n) THEN "unknown"
  ELSE IF any_in(prep_patterns, upper(n)) THEN "prep"
  ELSE IF any_in(private_patterns, upper(n)) THEN "private"
  ELSE IF any_in(international_patterns, upper(n)) THEN "international"
  ELSE IF any_in(public_patterns, upper(n)) THEN "public"
  ELSE "unknown"

(***************************************************************************)
(* select_canonical_name                                                   *)
(***************************************************************************)

\* A score that counts only the form of the suffix, not the periods.
score_without_periods(n) ==
  IF Contains(n, <<"H", "i", "g", "h", " ", "S", "c", "h", "o", "o", "l">>) THEN 100
  ELSE IF Contains(n, <<" ", "H", "S">>) /\ ~Contains(n, <<"H", ".", "S", ".">>) THEN 50
  ELSE 0

\* score_name(name)
score_name(n) ==
  (IF Contains(n, <<"H", "i", "g", "h", " ", "S", "c", "h", "o", "o", "l">>) THEN 100
   ELSE IF Contains(n, <<" ", "H", "S">>) /\ ~Contains(n, <<"H", ".", "S", ".">>) THEN 50
   ELSE 0)
  - CountChar(n, ".") * 10

\* A sort by player_count with the lowest count first.
RECURSIVE insert_by_count_ascending(_, _)
insert_by_count_ascending(x, s) ==
  IF s = <<>> THEN <<x>>
  ELSE IF x.player_count < s[1].player_count THEN <<x>> \o s
  ELSE <<s[1]>> \o insert_by_count_ascending(x, Tail(s))

RECURSIVE sort_by_count_ascending(_)
sort_by_count_ascending(df) ==
  IF df = <<>> THEN <<>>
  ELSE insert_by_count_ascending(df[Len(df)],
                                 sort_by_count_ascending(SubSeq(df, 1, Len(df) - 1)))

\* x put into the sorted sequence s after every row that does not have to
\* come after it.
RECURSIVE insert_by_count(_, _)
insert_by_count(x, s) ==
  IF s = <<>> THEN <<x>>
  ELSE IF x.player_count > s[1].player_count THEN <<x>> \o s
  ELSE <<s[1]>> \o insert_by_count(x, Tail(s))

\* df.sort_values('player_count', ascending=False), kept in the frame's order
\* among equal counts (what the sort gives on frames of this size).
RECURSIVE sort_by_count(_)
sort_by_count(df) ==
  IF df = <<>> THEN <<>>
  ELSE insert_by_count(df[Len(df)], sort_by_count(SubSeq(df, 1, Len(df) - 1)))

\* Whether row a comes before row b in
\* sort_values(['name_score', 'high_school_original'], ascending=[False, True]).
score_name_before(a, b) ==
  \/ a.name_score > b.name_score
  \/ /\ a.name_score = b.name_score
     /\ StrLess(a.high_school_original, b.high_school_original)

RECURSIVE insert_by_score_name(_, _)
insert_by_score_name(x, s) ==
  IF s = <<>> THEN <<x>>
  ELSE IF score_name_before(x, s[1]) THEN <<x>> \o s
  ELSE <<s[1]>> \o insert_by_score_name(x, Tail(s))

\* The rows sorted by score alone, equal scores staying in the frame's order.
RECURSIVE insert_by_score(_, _)
insert_by_score(x, s) ==
  IF s = <<>> THEN <<x>>
  ELSE IF x.name_score > s[1].name_score THEN <<x>> \o s
  ELSE <<s[1]>> \o insert_by_score(x, Tail(s))

RECURSIVE sort_by_score(_)
sort_by_score(df) ==
  IF df = <<>> THEN <<>>
  ELSE insert_by_score(df[Len(df)], sort_by_score(SubSeq(df, 1, Len(df) - 1)))

\* top_candidates.sort_values(['name_score', 'high_school_original'],
\*                            ascending=[False, True])
RECURSIVE sort_by_score_name(_)
sort_by_score_name(df) ==
  IF df = <<>> THEN <<>>
  ELSE insert_by_score_name(df[Len(df)],
                            sort_by_score_name(SubSeq(df, 1, Len(df) - 1)))

\* top_candidates['name_score'] = top_candidates['high_school_original'].apply(score_name)
with_name_score(df) ==
  [i \in 1..Len(df) |->
     df[i] @@ [name_score |-> score_name(df[i].high_school_original)]]

\* What a call is left with when group_df.iloc[0] (line 28) raises IndexError.
IndexError == <<"<IndexError>">>

\* select_canonical_name(group_df).  On a group with no row the sort gives an
\* empty frame and group_df.iloc[0] raises IndexError: nothing is returned.
select_canonical_name(df) ==
  IF df = <<>> THEN IndexError
  ELSE LET sorted == sort_by_count(df)
           max_count == sorted[1].player_count
           top_candidates == SelectSeq(sorted, LAMBDA r : r.player_count = max_count)
       IN IF Len(top_candidates) = 1 THEN top_candidates[1]
          ELSE sort_by_score_name(with_name_score(top_candidates))[1]

(***************************************************************************)
(* Frames: a DataFrame is the sequence of its rows, a row a record         *)
(***************************************************************************)

\* The lines of analyze_high_schools that add the derived columns the later
\* steps read and sort by frequency.  (The disambiguator and is_common_name
\* columns, which no later step reads, are left out.)
add_analysis(df) ==
  sort_by_count(
    [i \in 1..Len(df) |->
       df[i] @@ [high_school_normalized |-> normalize_hs_name(df[i].high_school_original),
                 school_type |-> categorize_school_type(df[i].high_school_original)]])

\* Whether a row has a group in groupby(['high_school_normalized', 'state']):
\* groupby leaves out the rows with a missing key (dropna=True).
has_key(r) == ~isna(r.high_school_normalized) /\ ~isna(r.state)

\* Whether two rows fall in the same group of the groupby.
same_group(a, b) ==
  /\ has_key(a)
  /\ has_key(b)
  /\ a.high_school_normalized = b.high_school_normalized
  /\ a.state = b.state

\* The rows of df in the group of r.
group_of(df, r) == SelectSeq(df, LAMBDA x : same_group(x, r))

\* Whether row a comes before row b in sort_values(['high_school_normalized',
\* 'state', 'player_count'], ascending=[True, True, False]).
duplicate_before(a, b) ==
  \/ StrLess(a.high_school_normalized, b.high_school_normalized)
  \/ /\ a.high_school_normalized = b.high_school_normalized
     /\ \/ StrLess(a.state, b.state)
        \/ a.state = b.state /\ a.player_count > b.player_count

RECURSIVE insert_duplicate(_, _)
insert_duplicate(x, s) ==
  IF s = <<>> THEN <<x>>
  ELSE IF duplicate_before(x, s[1]) THEN <<x>> \o s
  ELSE <<s[1]>> \o insert_duplicate(x, Tail(s))

RECURSIVE sort_duplicates(_)
sort_duplicates(df) ==
  IF df = <<>> THEN <<>>
  ELSE insert_duplicate(df[Len(df)], sort_duplicates(SubSeq(df, 1, Len(df) - 1)))

\* schools_df[schools_df['country'] == 'USA']
us_schools(df) == SelectSeq(df, LAMBDA r : r.country = <<"U", "S", "A">>)

\* identify_duplicates(schools_df)
identify_duplicates(df) ==
  sort_duplicates(
    SelectSeq(us_schools(df),
              LAMBDA r : Len(group_of(us_schools(df), r)) > 1))

\* The strings pd.read_csv reads as a missing value (its default na_values).
na_values ==
  { <<>>, <<"#", "N", "/", "A">>, <<"#", "N", "/", "A", " ", "N", "/", "A">>, <<"#", "N", "A">>, <<"-", "1", ".", "#", "I", "N", "D">>, <<"-", "1", ".", "#", "Q", "N", "A", "N">>,
    <<"-", "N", "a", "N">>, <<"-", "n", "a", "n">>, <<"1", ".", "#", "I", "N", "D">>, <<"1", ".", "#", "Q", "N", "A", "N">>, <<"<", "N", "A", ">">>, <<"N", "/", "A">>, <<"N", "A">>,
    <<"N", "U", "L", "L">>, <<"N", "a", "N">>, <<"N", "o", "n", "e">>, <<"n", "/", "a">>, <<"n", "a", "n">>, <<"n", "u", "l", "l">> }

\* A text cell written by to_csv and read back by pd.read_csv: a missing
\* value is written as the empty cell, and the empty cell and the na_values
\* are read as missing.
csv_cell(x) == IF isna(x) \/ x \in na_values THEN NaN ELSE x

\* duplicates.to_csv(dup_file, index=False) followed by pd.read_csv(dup_file).
csv_round_trip(df) ==
  [i \in 1..Len(df) |->
     [df[i] EXCEPT !.high_school_original = csv_cell(@),
                   !.state = csv_cell(@),
                   !.country = csv_cell(@),
                   !.high_school_normalized = csv_cell(@)]]

\* The keys of the groups of df, as <<normalized, state>>.
group_keys(df) ==
  {<<df[i].high_school_normalized, df[i].state>> :
     i \in {j \in 1..Len(df) : has_key(df[j])}}

\* The order groupby iterates its groups in: by normalized name, then state.
key_before(k1, k2) ==
  \/ StrLess(k1[1], k2[1])
  \/ k1[1] = k2[1] /\ StrLess(k1[2], k2[2])

\* A loop that skips no group.
skips_no_group(group) == FALSE

\* if len(group) == 1: continue
skips_group(group) == Len(group) = 1

\* The mapping rows of one group: none for a group of one row, else one for
\* every row, all with the selected canonical name.
group_mappings(group) ==
  IF skips_group(group) THEN <<>>
  ELSE LET canonical_row == select_canonical_name(group)
       IN [i \in 1..Len(group) |->
             [high_school_original |-> group[i].high_school_original,
              high_school_standardized |-> canonical_row.high_school_original,
              state |-> group[i].state,
              confidence |-> "high_auto",
              source |-> "duplicate_resolution",
              nces_id |-> NaN,
              player_count |-> group[i].player_count,
              canonical_player_count |-> canonical_row.player_count]]

\* The loop of create_duplicate_mapping over the groups with the keys in K.
RECURSIVE mappings_of(_, _)
mappings_of(df, K) ==
  IF K = {} THEN <<>>
  ELSE LET k == CHOOSE x \in K : \A y \in K : y = x \/ key_before(x, y)
       IN group_mappings(SelectSeq(df, LAMBDA r : /\ has_key(r)
                                                  /\ r.high_school_normalized = k[1]
                                                  /\ r.state = k[2]))
          \o mappings_of(df, K \ {k})

\* create_duplicate_mapping, from the frame read from the duplicates file to
\* the list of mapping rows.
create_duplicate_mapping(df) == mappings_of(df, group_keys(df))

\* The groups the loop of create_duplicate_mapping hands to
\* select_canonical_name, in the order of the calls: every group of the
\* groupby with the keys in K but those of one row, which the loop skips.
RECURSIVE canonical_calls_of(_, _)
canonical_calls_of(df, K) ==
  IF K = {} THEN <<>>
  ELSE LET k == CHOOSE x \in K : \A y \in K : y = x \/ key_before(x, y)
           group == SelectSeq(df, LAMBDA r : /\ has_key(r)
                                             /\ r.high_school_normalized = k[1]
                                             /\ r.state = k[2])
       IN (IF skips_group(group) THEN <<>> ELSE <<group>>)
          \o canonical_calls_of(df, K \ {k})

canonical_calls(df) == canonical_calls_of(df, group_keys(df))

(***************************************************************************)
(* The curated prep-school mapping and the final mapping table             *)
(***************************************************************************)

\* The curated list of prep schools and basketball academies.
prep_schools ==
  <<
    [original |-> <<"I", "M", "G", " ", "A", "c", "a", "d", "e", "m", "y">>,
     standardized |-> <<"I", "M", "G", " ", "A", "c", "a", "d", "e", "m", "y">>,
     city |-> <<"B", "r", "a", "d", "e", "n", "t", "o", "n">>, state |-> <<"F", "L">>],
    [original |-> <<"M", "o", "n", "t", "v", "e", "r", "d", "e", " ", "A", "c", "a", "d", "e", "m", "y">>,
     standardized |-> <<"M", "o", "n", "t", "v", "e", "r", "d", "e", " ", "A", "c", "a", "d", "e", "m", "y">>,
     city |-> <<"M", "o", "n", "t", "v", "e", "r", "d", "e">>, state |-> <<"F", "L">>],
    [original |-> <<"O", "a", "k", " ", "H", "i", "l", "l", " ", "A", "c", "a", "d", "e", "m", "y">>,
     standardized |-> <<"O", "a", "k", " ", "H", "i", "l", "l", " ", "A", "c", "a", "d", "e", "m", "y">>,
     city |-> <<"M", "o", "u", "t", "h", " ", "o", "f", " ", "W", "i", "l", "s", "o", "n">>, state |-> <<"V", "A">>],
    [original |-> <<"B", "r", "e", "w", "s", "t", "e", "r", " ", "A", "c", "a", "d", "e", "m", "y">>,
     standardized |-> <<"B", "r", "e", "w", "s", "t", "e", "r", " ", "A", "c", "a", "d", "e", "m", "y">>,
     city |-> <<"W", "o", "l", "f", "e", "b", "o", "r", "o">>, state |-> <<"N", "H">>],
    [original |-> <<"P", "r", "o", "l", "i", "f", "i", "c", " ", "P", "r", "e", "p">>,
     standardized |-> <<"P", "r", "o", "l", "i", "f", "i", "c", " ", "P", "r", "e", "p">>,
     city |-> <<"N", "a", "p", "a">>, state |-> <<"C", "A">>],
    [original |-> <<"S", "p", "i", "r", "e", " ", "A", "c", "a", "d", "e", "m", "y">>,
     standardized |-> <<"S", "p", "i", "r", "e", " ", "I", "n", "s", "t", "i", "t", "u", "t", "e">>,
     city |-> <<"G", "e", "n", "e", "v", "a">>, state |-> <<"O", "H">>],
    [original |-> <<"S", "p", "i", "r", "e", " ", "I", "n", "s", "t", "i", "t", "u", "t", "e">>,
     standardized |-> <<"S", "p", "i", "r", "e", " ", "I", "n", "s", "t", "i", "t", "u", "t", "e">>,
     city |-> <<"G", "e", "n", "e", "v", "a">>, state |-> <<"O", "H">>],
    [original |-> <<"L", "i", "n", "k", " ", "A", "c", "a", "d", "e", "m", "y">>,
     standardized |-> <<"L", "i", "n", "k", " ", "A", "c", "a", "d", "e", "m", "y">>,
     city |-> <<"B", "r", "a", "n", "s", "o", "n">>, state |-> <<"M", "O">>],
    [original |-> <<"L", "a", " ", "L", "u", "m", "i", "e", "r", "e", " ", "S", "c", "h", "o", "o", "l">>,
     standardized |-> <<"L", "a", " ", "L", "u", "m", "i", "e", "r", "e", " ", "S", "c", "h", "o", "o", "l">>,
     city |-> <<"L", "a", " ", "P", "o", "r", "t", "e">>, state |-> <<"I", "N">>],
    [original |-> <<"N", "e", "w", " ", "H", "o", "p", "e", " ", "A", "c", "a", "d", "e", "m", "y">>,
     standardized |-> <<"N", "e", "w", " ", "H", "o", "p", "e", " ", "C", "h", "r", "i", "s", "t", "i", "a", "n", " ", "A", "c", "a", "d", "e", "m", "y">>,
     city |-> <<"L", "a", "n", "d", "o", "v", "e", "r", " ", "H", "i", "l", "l", "s">>, state |-> <<"M", "D">>],
    [original |-> <<"N", "e", "w", " ", "H", "o", "p", "e", " ", "C", "h", "r", "i", "s", "t", "i", "a", "n", " ", "A", "c", "a", "d", "e", "m", "y">>,
     standardized |-> <<"N", "e", "w", " ", "H", "o", "p", "e", " ", "C", "h", "r", "i", "s", "t", "i", "a", "n", " ", "A", "c", "a", "d", "e", "m", "y">>,
     city |-> <<"L", "a", "n", "d", "o", "v", "e", "r", " ", "H", "i", "l", "l", "s">>, state |-> <<"M", "D">>],
    [original |-> <<"H", "a", "m", "i", "l", "t", "o", "n", " ", "H", "e", "i", "g", "h", "t", "s", " ", "C", "h", "r", "i", "s", "t", "i", "a", "n", " ", "A", "c", "a", "d", "e", "m", "y">>,
     standardized |-> <<"H", "a", "m", "i", "l", "t", "o", "n", " ", "H", "e", "i", "g", "h", "t", "s", " ", "C", "h", "r", "i", "s", "t", "i", "a", "n", " ", "A", "c", "a", "d", "e", "m", "y">>,
     city |-> <<"C", "h", "a", "t", "t", "a", "n", "o", "o", "g", "a">>, state |-> <<"T", "N">>],
    [original |-> <<"N", "o", "r", "t", "h", "f", "i", "e", "l", "d", " ", "M", "o", "u", "n", "t", " ", "H", "e", "r", "m", "o", "n">>,
     standardized |-> <<"N", "o", "r", "t", "h", "f", "i", "e", "l", "d", " ", "M", "o", "u", "n", "t", " ", "H", "e", "r", "m", "o", "n", " ", "S", "c", "h", "o", "o", "l">>,
     city |-> <<"G", "i", "l", "l">>, state |-> <<"M", "A">>],
    [original |-> <<"N", "o", "r", "t", "h", "f", "i", "e", "l", "d", " ", "M", "o", "u", "n", "t", " ", "H", "e", "r", "m", "o", "n", " ", "S", "c", "h", "o", "o", "l">>,
     standardized |-> <<"N", "o", "r", "t", "h", "f", "i", "e", "l", "d", " ", "M", "o", "u", "n", "t", " ", "H", "e", "r", "m", "o", "n", " ", "S", "c", "h", "o", "o", "l">>,
     city |-> <<"G", "i", "l", "l">>, state |-> <<"M", "A">>],
    [original |-> <<"S", "o", "u", "t", "h", " ", "K", "e", "n", "t", " ", "S", "c", "h", "o", "o", "l">>,
     standardized |-> <<"S", "o", "u", "t", "h", " ", "K", "e", "n", "t", " ", "S", "c", "h", "o", "o", "l">>,
     city |-> <<"S", "o", "u", "t", "h", " ", "K", "e", "n", "t">>, state |-> <<"C", "T">>],
    [original |-> <<"W", "i", "l", "b", "r", "a", "h", "a", "m", " ", "&", " ", "M", "o", "n", "s", "o", "n", " ", "A", "c", "a", "d", "e", "m", "y">>,
     standardized |-> <<"W", "i", "l", "b", "r", "a", "h", "a", "m", " ", "&", " ", "M", "o", "n", "s", "o", "n", " ", "A", "c", "a", "d", "e", "m", "y">>,
     city |-> <<"W", "i", "l", "b", "r", "a", "h", "a", "m">>, state |-> <<"M", "A">>],
    [original |-> <<"W", "e", "s", "t", "t", "o", "w", "n", " ", "S", "c", "h", "o", "o", "l">>,
     standardized |-> <<"W", "e", "s", "t", "t", "o", "w", "n", " ", "S", "c", "h", "o", "o", "l">>,
     city |-> <<"W", "e", "s", "t", " ", "C", "h", "e", "s", "t", "e", "r">>, state |-> <<"P", "A">>],
    [original |-> <<"W", "o", "r", "c", "e", "s", "t", "e", "r", " ", "A", "c", "a", "d", "e", "m", "y">>,
     standardized |-> <<"W", "o", "r", "c", "e", "s", "t", "e", "r", " ", "A", "c", "a", "d", "e", "m", "y">>,
     city |-> <<"W", "o", "r", "c", "e", "s", "t", "e", "r">>, state |-> <<"M", "A">>],
    [original |-> <<"T", "h", "e", " ", "G", "o", "v", "e", "r", "n", "o", "r", "'", "s", " ", "A", "c", "a", "d", "e", "m", "y">>,
     standardized |-> <<"T", "h", "e", " ", "G", "o", "v", "e", "r", "n", "o", "r", "'", "s", " ", "A", "c", "a", "d", "e", "m", "y">>,
     city |-> <<"B", "y", "f", "i", "e", "l", "d">>, state |-> <<"M", "A">>],
    [original |-> <<"G", "o", "v", "e", "r", "n", "o", "r", "s", " ", "A", "c", "a", "d", "e", "m", "y">>,
     standardized |-> <<"T", "h", "e", " ", "G", "o", "v", "e", "r", "n", "o", "r", "'", "s", " ", "A", "c", "a", "d", "e", "m", "y">>,
     city |-> <<"B", "y", "f", "i", "e", "l", "d">>, state |-> <<"M", "A">>],
    [original |-> <<"B", "l", "a", "i", "r", " ", "A", "c", "a", "d", "e", "m", "y">>,
     standardized |-> <<"B", "l", "a", "i", "r", " ", "A", "c", "a", "d", "e", "m", "y">>,
     city |-> <<"B", "l", "a", "i", "r", "s", "t", "o", "w", "n">>, state |-> <<"N", "J">>],
    [original |-> <<"P", "u", "t", "n", "a", "m", " ", "S", "c", "i", "e", "n", "c", "e", " ", "A", "c", "a", "d", "e", "m", "y">>,
     standardized |-> <<"P", "u", "t", "n", "a", "m", " ", "S", "c", "i", "e", "n", "c", "e", " ", "A", "c", "a", "d", "e", "m", "y">>,
     city |-> <<"P", "u", "t", "n", "a", "m">>, state |-> <<"C", "T">>],
    [original |-> <<"S", "t", ".", " ", "A", "n", "d", "r", "e", "w", "'", "s", " ", "S", "c", "h", "o", "o", "l">>,
     standardized |-> <<"S", "t", ".", " ", "A", "n", "d", "r", "e", "w", "'", "s", " ", "S", "c", "h", "o", "o", "l">>,
     city |-> <<"B", "a", "r", "r", "i", "n", "g", "t", "o", "n">>, state |-> <<"R", "I">>],
    [original |-> <<"T", "a", "b", "o", "r", " ", "A", "c", "a", "d", "e", "m", "y">>,
     standardized |-> <<"T", "a", "b", "o", "r", " ", "A", "c", "a", "d", "e", "m", "y">>,
     city |-> <<"M", "a", "r", "i", "o", "n">>, state |-> <<"M", "A">>],
    [original |-> <<"C", "h", "o", "a", "t", "e", " ", "R", "o", "s", "e", "m", "a", "r", "y", " ", "H", "a", "l", "l">>,
     standardized |-> <<"C", "h", "o", "a", "t", "e", " ", "R", "o", "s", "e", "m", "a", "r", "y", " ", "H", "a", "l", "l">>,
     city |-> <<"W", "a", "l", "l", "i", "n", "g", "f", "o", "r", "d">>, state |-> <<"C", "T">>]
  >>

\* create_prep_school_mapping(): one mapping row for every curated school.
create_prep_school_mapping ==
  [i \in 1..Len(prep_schools) |->
     [high_school_original |-> prep_schools[i].original,
      high_school_standardized |-> prep_schools[i].standardized,
      state |-> prep_schools[i].state,
      confidence |-> "high_manual",
      source |-> "prep_school_curated",
      nces_id |-> NaN,
      city |-> prep_schools[i].city,
      notes |-> <<"M", "a", "n", "u", "a", "l", "l", "y", " ", "c", "u", "r", "a", "t", "e", "d", " ", "p", "r", "e", "p", "/", "b", "a", "s", "k", "e", "t", "b", "a", "l", "l", " ", "a", "c", "a", "d", "e", "m", "y">>]]

\* The columns of a frame.
columns(df) == IF df = <<>> THEN {} ELSE DOMAIN df[1]

\* Two frames put one after the other, keeping for every original name only
\* its last row.
concat_keep_last(a, b) ==
  LET cols == columns(a) \cup columns(b)
      aligned(r) == [c \in cols |-> IF c \in DOMAIN r THEN r[c] ELSE NaN]
      all == [i \in 1..(Len(a) + Len(b)) |->
                aligned(IF i <= Len(a) THEN a[i] ELSE b[i - Len(a)])]
      last(i) == \A j \in (i + 1)..Len(all) :
                    all[j].high_school_original # all[i].high_school_original
      kept == {i \in 1..Len(all) : last(i)}
      RECURSIVE pick(_)
      pick(i) == IF i > Len(all) THEN <<>>
                 ELSE (IF i \in kept THEN <<all[i]>> ELSE <<>>) \o pick(i + 1)
  IN pick(1)

\* pd.concat([a, b], ignore_index=True): the rows of a followed by the rows
\* of b, over the union of the columns; a row has a missing value in the
\* columns that only the other frame has.
concat(a, b) ==
  LET cols == columns(a) \cup columns(b)
      aligned(r) == [c \in cols |-> IF c \in DOMAIN r THEN r[c] ELSE NaN]
  IN [i \in 1..(Len(a) + Len(b)) |->
        aligned(IF i <= Len(a) THEN a[i] ELSE b[i - Len(a)])]

(***************************************************************************)
(* download_from_urban_api: the paged download                             *)
(***************************************************************************)

\* max_pages, the safety limit of the loop.
max_pages == 100

\* The value of result before the function has returned.
NoResult == [kind |-> "unset", rows |-> 0]

\* The state of the download before its first request: all_schools = [],
\* page = 0.
NoDownload ==
  /\ page = 0
  /\ all_schools = 0
  /\ requests = <<>>
  /\ received = 0
  /\ last_response = "none"
  /\ result = NoResult

(***************************************************************************)
(* Bounds and inputs                                                       *)
(***************************************************************************)

\* The longest name, in tokens of the vocabulary.
MaxTokens == 3

\* The most rows of a duplicate group handed to select_canonical_name.
MaxGroup == 3

\* The highest player_count.
MaxCount == 2

\* The most periods in a name of a duplicate group.
MaxDots == 6

\* The value of a variable that no step has assigned yet.
Unset == <<"<unset>">>

\* The strings made of at most n tokens of T.
RECURSIVE Concats(_, _)
Concats(T, n) ==
  IF n = 0 THEN {<<>>}
  ELSE Concats(T, n - 1) \cup {a \o t : a \in Concats(T, n - 1), t \in T}

\* Names given to normalize_hs_name; the last token starts with a vertical tab.
NormTokens ==
  { <<"L", "i", "n", "c", "o", "l", "n">>, <<" ", "H", "i", "g", "h", " ", "S", "c", "h", "o", "o", "l">>, <<"S", "t", ".", " ">>, <<"M", "a", "r", "y", "'", "s">>, <<" ", "H", ".", "S", ".">>, <<" ", "H", "S">>,
    <<" ", "H", ".", "S">>, <<" ", "(", "a", ")">>, <<"H", "I", "G", "H", " ", "S", "C", "H", "O", "O", "L">>, <<"H", "S">>, <<"H", ".", "S", ".">>,
    <<"<11>", "H", "S">> }

\* Names given to categorize_school_type.
TypeTokens ==
  { <<"I", "M", "G">>, <<" ", "A", "c", "a", "d", "e", "m", "y">>, <<"C", "e", "n", "t", "r", "a", "l">>, <<" ", "C", "a", "t", "h", "o", "l", "i", "c">>, <<" ", "H", "i", "g", "h", " ", "S", "c", "h", "o", "o", "l">>,
    <<" ", "L", "y", "c", "e", "e">> }

\* n periods.
RECURSIVE Dots(_)
Dots(n) == IF n = 0 THEN <<>> ELSE <<".">> \o Dots(n - 1)

\* Spellings of one school: all of them normalize to "A".
SelNames ==
  { <<"A", " ", "H", "i", "g", "h", " ", "S", "c", "h", "o", "o", "l">>, <<"A", " ", "H", "S">>, <<"a", " ", "H", "S">>, <<"A", " ", "H", ".", "S", ".">>,
    <<"A">> \o Dots(1) \o <<" ", "H", "i", "g", "h", " ", "S", "c", "h", "o", "o", "l">>,
    <<"A">> \o Dots(MaxDots) \o <<" ", "H", "i", "g", "h", " ", "S", "c", "h", "o", "o", "l">> }

SelRows == [high_school_original : SelNames, player_count : 1..MaxCount]

\* The frames of 1..n rows with pairwise distinct names.
GroupFrames(n) ==
  {df \in UNION {[1..k -> SelRows] : k \in 1..n} :
     \A i, j \in 1..Len(df) :
        i # j => df[i].high_school_original # df[j].high_school_original}

(***************************************************************************)
(* normalize_hs_name applied to a name, and again to its own result        *)
(***************************************************************************)

InitNorm ==
  /\ pc = "start"
  /\ name \in Concats(NormTokens, MaxTokens) \cup {NaN}
  /\ normalized = Unset
  /\ renormalized = Unset
  /\ school_type = "unset"
  /\ group_df = <<>>
  /\ canonical = Unset
  /\ schools_df = <<>>
  /\ duplicates = <<>>
  /\ duplicates_file = Unset
  /\ mappings = <<>>
  /\ calls = <<>>
  /\ all_mappings = <<>>
  /\ NoDownload

Normalize ==
  /\ pc = "start"
  /\ normalized' = normalize_hs_name(name)
  /\ pc' = "normalized"
  /\ UNCHANGED <<name, renormalized, school_type, group_df, canonical,
                 schools_df, duplicates, duplicates_file, mappings,
                 calls, all_mappings,
                 page, all_schools, requests, received, last_response, result>>

Renormalize ==
  /\ pc = "normalized"
  /\ renormalized' = normalize_hs_name(normalized)
  /\ pc' = "renormalized"
  /\ UNCHANGED <<name, normalized, school_type, group_df, canonical,
                 schools_df, duplicates, duplicates_file, mappings,
                 calls, all_mappings,
                 page, all_schools, requests, received, last_response, result>>

NextNorm == Normalize \/ Renormalize

SpecNorm == InitNorm /\ [][NextNorm]_vars

(***************************************************************************)
(* categorize_school_type applied to a name                                *)
(***************************************************************************)

InitType ==
  /\ pc = "start"
  /\ name \in Concats(TypeTokens, MaxTokens) \cup {NaN}
  /\ normalized = Unset
  /\ renormalized = Unset
  /\ school_type = "unset"
  /\ group_df = <<>>
  /\ canonical = Unset
  /\ schools_df = <<>>
  /\ duplicates = <<>>
  /\ duplicates_file = Unset
  /\ mappings = <<>>
  /\ calls = <<>>
  /\ all_mappings = <<>>
  /\ NoDownload

Categorize ==
  /\ pc = "start"
  /\ school_type' = categorize_school_type(name)
  /\ pc' = "categorized"
  /\ UNCHANGED <<name, normalized, renormalized, group_df, canonical,
                 schools_df, duplicates, duplicates_file, mappings,
                 calls, all_mappings,
                 page, all_schools, requests, received, last_response, result>>

NextType == Categorize

SpecType == InitType /\ [][NextType]_vars

(***************************************************************************)
(* select_canonical_name applied to a duplicate group                      *)
(***************************************************************************)

InitSel ==
  /\ pc = "start"
  /\ name = NaN
  /\ normalized = Unset
  /\ renormalized = Unset
  /\ school_type = "unset"
  /\ group_df \in GroupFrames(MaxGroup)
  /\ canonical = Unset
  /\ schools_df = <<>>
  /\ duplicates = <<>>
  /\ duplicates_file = Unset
  /\ mappings = <<>>
  /\ calls = <<>>
  /\ all_mappings = <<>>
  /\ NoDownload

\* A call of select_canonical_name: it returns a row, or raises IndexError.
SelectCanonical ==
  /\ pc = "start"
  /\ canonical' = select_canonical_name(group_df)
  /\ pc' = IF group_df = <<>> THEN "index_error" ELSE "selected"
  /\ UNCHANGED <<name, normalized, renormalized, school_type, group_df,
                 schools_df, duplicates, duplicates_file, mappings,
                 calls, all_mappings,
                 page, all_schools, requests, received, last_response, result>>

NextSel == SelectCanonical

SpecSel == InitSel /\ [][NextSel]_vars

(***************************************************************************)
(* The two scripts run one after the other                                 *)
(***************************************************************************)

\* The most distinct school names in the rosters.
MaxSchools == 3

\* Spellings found in the rosters: two of one school, and two that are
\* nothing but a parenthetical, which normalize to the empty string.
PipeNames == { <<"A", " ", "H", "S">>, <<"A", " ", "H", "i", "g", "h", " ", "S", "c", "h", "o", "o", "l">>, <<"(", "a", ")">>, <<"(", "b", ")">> }

\* Where a school is, as <<state, country>>: the state can be missing, and a
\* school abroad can carry a state.
PipePlaces ==
  { << <<"O", "H">>, <<"U", "S", "A">> >>, << <<"T", "X">>, <<"U", "S", "A">> >>, << NaN, <<"U", "S", "A">> >>,
    << <<"O", "H">>, <<"C", "A", "N">> >> }

\* The names of S in ascending order, as groupby('high_school') leaves them.
RECURSIVE sorted_names(_)
sorted_names(S) ==
  IF S = {} THEN <<>>
  ELSE LET m == CHOOSE x \in S : \A y \in S : y = x \/ StrLess(x, y)
       IN <<m>> \o sorted_names(S \ {m})

\* The frames unique_schools can be after the aggregation (line 179) with the
\* names of S: one row for every name, with its most frequent state and
\* country and the number of roster entries.
FramesOf(S) ==
  LET names == sorted_names(S)
  IN { [i \in 1..Len(names) |->
          [high_school_original |-> names[i],
           state |-> f[names[i]].place[1],
           country |-> f[names[i]].place[2],
           player_count |-> f[names[i]].player_count]] :
       f \in [S -> [place : PipePlaces, player_count : 1..MaxCount]] }

\* The frames of 1..n names.
SchoolFrames(n) ==
  UNION {FramesOf(S) : S \in {T \in SUBSET PipeNames : Cardinality(T) \in 1..n}}

Init ==
  /\ pc = "start"
  /\ name = NaN
  /\ normalized = Unset
  /\ renormalized = Unset
  /\ school_type = "unset"
  /\ group_df = <<>>
  /\ canonical = Unset
  /\ schools_df \in SchoolFrames(MaxSchools)
  /\ duplicates = <<>>
  /\ duplicates_file = Unset
  /\ mappings = <<>>
  /\ calls = <<>>
  /\ all_mappings = <<>>
  /\ NoDownload

\* normalize_high_schools.py, main: the analysis, the duplicates, and the
\* duplicates file, which is written only when there are duplicates.
NormalizeHighSchools ==
  /\ pc = "start"
  /\ schools_df' = add_analysis(schools_df)
  /\ duplicates' = identify_duplicates(schools_df')
  /\ duplicates_file' = IF Len(duplicates') > 0 THEN duplicates' ELSE Unset
  /\ pc' = "normalized"
  /\ UNCHANGED <<name, normalized, renormalized, school_type, group_df,
                 canonical, mappings,
                 calls, all_mappings,
                 page, all_schools, requests, received, last_response, result>>

\* build_hs_mapping.py, main, with no duplicates file: it reports that and
\* returns.
BuildMappingNoFile ==
  /\ pc = "normalized"
  /\ duplicates_file = Unset
  /\ pc' = "no_file"
  /\ UNCHANGED <<name, normalized, renormalized, school_type, group_df,
                 canonical, schools_df, duplicates, duplicates_file, mappings,
                 calls, all_mappings,
                 page, all_schools, requests, received, last_response, result>>

\* build_hs_mapping.py, main, with a duplicates file: create_duplicate_mapping
\* reads it and builds the mapping rows; with no row at all the frame has no
\* column and mapping_df['high_school_standardized'] (line 86) raises KeyError.
BuildMapping ==
  /\ pc = "normalized"
  /\ duplicates_file # Unset
  /\ mappings' = create_duplicate_mapping(csv_round_trip(duplicates_file))
  /\ calls' = canonical_calls(csv_round_trip(duplicates_file))
  /\ pc' = IF mappings' = <<>> THEN "key_error" ELSE "mapped"
  /\ all_mappings' = IF mappings' = <<>> THEN <<>>
                     ELSE concat(mappings', create_prep_school_mapping)
  /\ UNCHANGED <<name, normalized, renormalized, school_type, group_df,
                 canonical, schools_df, duplicates, duplicates_file,
                 page, all_schools, requests, received, last_response, result>>

Next == NormalizeHighSchools \/ BuildMappingNoFile \/ BuildMapping

Spec == Init /\ [][Next]_vars

(***************************************************************************)
(* The two scripts on rosters that name curated prep schools               *)
(***************************************************************************)

\* Spellings found in the rosters: two curated prep schools, each also
\* written with the suffix that normalize_hs_name strips.
CuratedNames == { <<"I", "M", "G", " ", "A", "c", "a", "d", "e", "m", "y">>, <<"I", "M", "G", " ", "A", "c", "a", "d", "e", "m", "y", " ", "H", "S">>, <<"S", "p", "i", "r", "e", " ", "A", "c", "a", "d", "e", "m", "y">>, <<"S", "p", "i", "r", "e", " ", "A", "c", "a", "d", "e", "m", "y", " ", "H", "S">> }

\* The frames of 1..n of these names.
CuratedFrames(n) ==
  UNION {FramesOf(S) : S \in {T \in SUBSET CuratedNames : Cardinality(T) \in 1..n}}

InitCurated ==
  /\ pc = "start"
  /\ name = NaN
  /\ normalized = Unset
  /\ renormalized = Unset
  /\ school_type = "unset"
  /\ group_df = <<>>
  /\ canonical = Unset
  /\ schools_df \in CuratedFrames(MaxSchools)
  /\ duplicates = <<>>
  /\ duplicates_file = Unset
  /\ mappings = <<>>
  /\ calls = <<>>
  /\ all_mappings = <<>>
  /\ NoDownload

SpecCurated == InitCurated /\ [][Next]_vars

(***************************************************************************)
(* The groups given to select_canonical_name: the two scripts with the     *)
(* review of the duplicates file between them, and a call of               *)
(* select_canonical_name on its own on a group with no row                 *)
(***************************************************************************)

\* Three spellings of one school: all of them normalize to "A".
CallNames == { <<"A", " ", "H", "S">>, <<"A", " ", "H", "i", "g", "h", " ", "S", "c", "h", "o", "o", "l">>, <<"A", " ", "H", ".", "S", ".">> }

\* The frames of 1..n of these names.
CallFrames(n) ==
  UNION {FramesOf(S) : S \in {T \in SUBSET CallNames : Cardinality(T) \in 1..n}}

\* The states the review can give a row.
ReviewStates == { <<"O", "H">>, <<"T", "X">> }

InitCalls ==
  /\ pc = "start"
  /\ name = NaN
  /\ normalized = Unset
  /\ renormalized = Unset
  /\ school_type = "unset"
  /\ group_df = <<>>
  /\ canonical = Unset
  /\ schools_df \in CallFrames(MaxSchools)
  /\ duplicates = <<>>
  /\ duplicates_file = Unset
  /\ mappings = <<>>
  /\ calls = <<>>
  /\ all_mappings = <<>>
  /\ NoDownload

\* The review of the duplicates file that normalize_high_schools.py asks for
\* before the mapping is built ("Review potential duplicates in ..."): the
\* user corrects the state of one row of the file.
ReviewDuplicates ==
  /\ pc = "normalized"
  /\ duplicates_file # Unset
  /\ \E i \in 1..Len(duplicates_file) :
        \E st \in ReviewStates \ {duplicates_file[i].state} :
           duplicates_file' = [duplicates_file EXCEPT ![i].state = st]
  /\ UNCHANGED <<pc, name, normalized, renormalized, school_type, group_df,
                 canonical, schools_df, duplicates, mappings,
                 calls, all_mappings,
                 page, all_schools, requests, received, last_response, result>>

\* select_canonical_name called on its own on a group with no row.
SelectCanonicalOfNoRow ==
  /\ group_df = <<>>
  /\ canonical = Unset
  /\ canonical' = select_canonical_name(group_df)
  /\ UNCHANGED <<pc, name, normalized, renormalized, school_type, group_df,
                 schools_df, duplicates, duplicates_file, mappings,
                 calls, all_mappings,
                 page, all_schools, requests, received, last_response, result>>

NextCalls ==
  \/ NormalizeHighSchools
  \/ ReviewDuplicates
  \/ BuildMappingNoFile
  \/ BuildMapping
  \/ SelectCanonicalOfNoRow

SpecCalls == InitCalls /\ [][NextCalls]_vars

(***************************************************************************)
(* download_from_urban_api: one request a turn of the loop.  The list      *)
(* all_schools is kept as the number of its records; requests is the pages *)
(* asked for so far, received the number of records the responses held.    *)
(***************************************************************************)

\* The most records in the 'results' of one response.
MaxResults == 2

\* The variables of the other scripts.
hsVars == <<name, normalized, renormalized, school_type, group_df, canonical,
            schools_df, duplicates, duplicates_file, mappings, calls,
            all_mappings>>

\* The responses after which the loop breaks.
StopResponses == {"exception", "not_200", "no_results", "no_next"}

\* A page number that leaves one page out.
skip_page(p) == p + 2

\* page += 1
next_page(p) == p + 1

\* The end of the function: a frame of the records, or None when there are
\* none.
returned_value(records) ==
  IF records > 0 THEN [kind |-> "DataFrame", rows |-> records]
  ELSE [kind |-> "None", rows |-> 0]

InitDl ==
  /\ pc = "loop"
  /\ name = NaN
  /\ normalized = Unset
  /\ renormalized = Unset
  /\ school_type = "unset"
  /\ group_df = <<>>
  /\ canonical = Unset
  /\ schools_df = <<>>
  /\ duplicates = <<>>
  /\ duplicates_file = Unset
  /\ mappings = <<>>
  /\ calls = <<>>
  /\ all_mappings = <<>>
  /\ NoDownload

\* requests.get or response.json() raises: the handler breaks out of the loop.
RequestRaises ==
  /\ pc = "loop"
  /\ page < max_pages
  /\ requests' = Append(requests, page)
  /\ last_response' = "exception"
  /\ pc' = "after_loop"
  /\ UNCHANGED <<page, all_schools, received, result, hsVars>>

\* response.status_code != 200: break.
ResponseNot200 ==
  /\ pc = "loop"
  /\ page < max_pages
  /\ requests' = Append(requests, page)
  /\ last_response' = "not_200"
  /\ pc' = "after_loop"
  /\ UNCHANGED <<page, all_schools, received, result, hsVars>>

\* 'results' is not in the response or is empty: break.
ResponseNoResults ==
  /\ pc = "loop"
  /\ page < max_pages
  /\ requests' = Append(requests, page)
  /\ last_response' = "no_results"
  /\ pc' = "after_loop"
  /\ UNCHANGED <<page, all_schools, received, result, hsVars>>

\* A response with n records and no 'next' (or an empty one): the records are
\* added, then break.
ResponseLastPage ==
  /\ pc = "loop"
  /\ page < max_pages
  /\ \E n \in 1..MaxResults :
        /\ all_schools' = all_schools + n
        /\ received' = received + n
  /\ requests' = Append(requests, page)
  /\ last_response' = "no_next"
  /\ pc' = "after_loop"
  /\ UNCHANGED <<page, result, hsVars>>

\* A response with n records and a 'next': the records are added and the
\* loop goes on with the next page.
ResponseWithNext ==
  /\ pc = "loop"
  /\ page < max_pages
  /\ \E n \in 1..MaxResults :
        /\ all_schools' = all_schools + n
        /\ received' = received + n
  /\ requests' = Append(requests, page)
  /\ last_response' = "next"
  /\ page' = next_page(page)
  /\ pc' = "loop"
  /\ UNCHANGED <<result, hsVars>>

\* while page < max_pages fails.
LoopEnds ==
  /\ pc = "loop"
  /\ page >= max_pages
  /\ pc' = "after_loop"
  /\ UNCHANGED <<page, all_schools, requests, received, last_response, result,
                 hsVars>>

\* if all_schools: return the frame, else return None.
Return ==
  /\ pc = "after_loop"
  /\ result' = returned_value(all_schools)
  /\ pc' = "returned"
  /\ UNCHANGED <<page, all_schools, requests, received, last_response, hsVars>>

NextDl ==
  \/ RequestRaises
  \/ ResponseNot200
  \/ ResponseNoResults
  \/ ResponseLastPage
  \/ ResponseWithNext
  \/ LoopEnds
  \/ Return

\* Every request returns or raises (timeout=30), and nothing else holds the
\* loop up: a step that can be taken is taken.
SpecDl == InitDl /\ [][NextDl]_vars /\ WF_vars(NextDl)

(***************************************************************************)
(* Claims about normalize_hs_name (SpecNorm)                               *)
(***************************************************************************)

\* C1: normalize_hs_name is idempotent: normalizing a normalized name gives
\* the same string again.
C1_Idempotent == pc = "renormalized" => renormalized = normalized

\* C7 as stated: 'Lincoln High School' gives 'LINCOLN', "St. Mary's H.S."
\* gives 'SAINT MARY', the empty string and a missing name give ''.
C7_ExamplesAsStated ==
  pc # "start" =>
    /\ name = <<"L", "i", "n", "c", "o", "l", "n", " ", "H", "i", "g", "h", " ", "S", "c", "h", "o", "o", "l">> => normalized = <<"L", "I", "N", "C", "O", "L", "N">>
    /\ name = <<"S", "t", ".", " ", "M", "a", "r", "y", "'", "s", " ", "H", ".", "S", ".">> => normalized = <<"S", "A", "I", "N", "T", " ", "M", "A", "R", "Y">>
    /\ name \in {<<>>, NaN} => normalized = <<>>

\* C7 amended: 'Lincoln High School' gives 'LINCOLN', "St. Mary's H.S." gives
\* 'SAINT MARYS' (the apostrophe is removed, the S after it stays), the empty
\* string and a missing name give ''.
C7_Examples ==
  pc # "start" =>
    /\ name = <<"L", "i", "n", "c", "o", "l", "n", " ", "H", "i", "g", "h", " ", "S", "c", "h", "o", "o", "l">> => normalized = <<"L", "I", "N", "C", "O", "L", "N">>
    /\ name = <<"S", "t", ".", " ", "M", "a", "r", "y", "'", "s", " ", "H", ".", "S", ".">> => normalized = <<"S", "A", "I", "N", "T", " ", "M", "A", "R", "Y", "S">>
    /\ name \in {<<>>, NaN} => normalized = <<>>

C7_Witness ==
  /\ pc = "normalized"
  /\ name = <<"S", "t", ".", " ", "M", "a", "r", "y", "'", "s", " ", "H", ".", "S", ".">>
  /\ normalized = <<"S", "A", "I", "N", "T", " ", "M", "A", "R", "Y", "S">>

\* C8 as stated: only the first of the four patterns that matches the end of
\* the uppercased, trimmed name is removed; a suffix that removal exposes is
\* left in place.
C8_OneSuffixAsStated ==
  (pc # "start" /\ name \notin {<<>>, NaN}) =>
     normalized = after_suffixes(strip_first_suffix(strip(upper(name)), 1))

\* C8 amended: the four patterns ' HIGH SCHOOL', ' H.S.', ' HS', ' H.S' are
\* each tried once, in that order, against the end of what the earlier ones
\* left, and each one that matches then is removed: a suffix exposed by a
\* removal is removed too when its pattern comes later in the order
\* ('Lincoln HS High School' gives 'LINCOLN') and is left in place when its
\* pattern came earlier ('Lincoln High School HS' gives 'LINCOLN HIGH SCHOOL').
C8_EachSuffixOnce ==
  (pc # "start" /\ name \notin {<<>>, NaN}) =>
     /\ normalized =
          after_suffixes(
            sub_suffix(suffixes[4],
              sub_suffix(suffixes[3],
                sub_suffix(suffixes[2],
                  sub_suffix(suffixes[1], strip(upper(name)))))))
     /\ name = <<"L", "i", "n", "c", "o", "l", "n", " ", "H", "S", " ", "H", "i", "g", "h", " ", "S", "c", "h", "o", "o", "l">> => normalized = <<"L", "I", "N", "C", "O", "L", "N">>
     /\ name = <<"L", "i", "n", "c", "o", "l", "n", " ", "H", "i", "g", "h", " ", "S", "c", "h", "o", "o", "l", " ", "H", "S">> => normalized = <<"L", "I", "N", "C", "O", "L", "N", " ", "H", "I", "G", "H", " ", "S", "C", "H", "O", "O", "L">>

C8_Witness ==
  /\ pc = "normalized"
  /\ name = <<"L", "i", "n", "c", "o", "l", "n", " ", "H", "S", " ", "H", "i", "g", "h", " ", "S", "c", "h", "o", "o", "l">>
  /\ normalized = <<"L", "I", "N", "C", "O", "L", "N">>

\* The names that are a suffix and nothing else, uppercased and trimmed.
SuffixOnly == { <<"H", "I", "G", "H", " ", "S", "C", "H", "O", "O", "L">>, <<"H", "S">>, <<"H", ".", "S", ".">>, <<"H", ".", "S">> }

\* C9 as stated: a name that consists only of a high-school suffix is
\* normalized to the empty string.
C9_SuffixOnlyAsStated ==
  (pc # "start" /\ name # NaN /\ strip(upper(name)) \in SuffixOnly) =>
     normalized = <<>>

\* C9 amended: a name that consists only of a high-school suffix keeps it,
\* because every pattern asks for white space before the suffix and the name
\* is trimmed first: 'HIGH SCHOOL' gives 'HIGH SCHOOL', and 'HS', 'H.S.' and
\* 'H.S' give 'HS' (only the periods go).
C9_SuffixOnlyKept ==
  (pc # "start" /\ name # NaN /\ strip(upper(name)) \in SuffixOnly) =>
     normalized = (IF strip(upper(name)) = <<"H", "I", "G", "H", " ", "S", "C", "H", "O", "O", "L">>
                   THEN <<"H", "I", "G", "H", " ", "S", "C", "H", "O", "O", "L">> ELSE <<"H", "S">>)

C9_Witness ==
  /\ pc = "normalized"
  /\ name = <<"H", "I", "G", "H", " ", "S", "C", "H", "O", "O", "L">>
  /\ normalized = <<"H", "I", "G", "H", " ", "S", "C", "H", "O", "O", "L">>

(***************************************************************************)
(* Claims about categorize_school_type (SpecType)                          *)
(***************************************************************************)

\* C10: the rules are applied in fixed precedence to the uppercased name and
\* the first that matches wins: prep markers, then private, then
\* international, then public, else unknown.
C10_Precedence ==
  (pc = "categorized" /\ name # NaN) =>
     LET u == upper(name)
         prep == any_in(prep_patterns, u)
         private == any_in(private_patterns, u)
         international == any_in(international_patterns, u)
         public == any_in(public_patterns, u)
     IN /\ prep => school_type = "prep"
        /\ (~prep /\ private) => school_type = "private"
        /\ (~prep /\ ~private /\ international) => school_type = "international"
        /\ (~prep /\ ~private /\ ~international /\ public) => school_type = "public"
        /\ (~prep /\ ~private /\ ~international /\ ~public) => school_type = "unknown"
        /\ name = <<"I", "M", "G", " ", "A", "c", "a", "d", "e", "m", "y">> => school_type = "prep"
        /\ name = <<"C", "e", "n", "t", "r", "a", "l", " ", "C", "a", "t", "h", "o", "l", "i", "c", " ", "H", "i", "g", "h", " ", "S", "c", "h", "o", "o", "l">> => school_type = "private"

C10_Witness ==
  /\ pc = "categorized"
  /\ name # NaN
  /\ Contains(upper(name), <<"A", "C", "A", "D", "E", "M", "Y">>)
  /\ Contains(upper(name), <<"C", "A", "T", "H", "O", "L", "I", "C">>)
  /\ school_type = "prep"

(***************************************************************************)
(* Claims about select_canonical_name (SpecSel)                            *)
(***************************************************************************)

\* The name_score of C2: 100 for 'High School', else 50 for ' HS' without
\* 'H.S.', else 0, less 10 for every period.
C2_NameScore(n) ==
  LET base == IF \E i \in 1..(Len(n) - 10) : SubSeq(n, i, i + 10) = <<"H", "i", "g", "h", " ", "S", "c", "h", "o", "o", "l">> THEN 100
              ELSE IF /\ \E i \in 1..(Len(n) - 2) : SubSeq(n, i, i + 2) = <<" ", "H", "S">>
                      /\ ~\E i \in 1..(Len(n) - 3) : SubSeq(n, i, i + 3) = <<"H", ".", "S", ".">>
                   THEN 50
              ELSE 0
  IN base - 10 * Cardinality({i \in 1..Len(n) : n[i] = "."})

\* The rows of the group with the highest player_count.
TopCandidates ==
  {i \in 1..Len(group_df) :
     \A j \in 1..Len(group_df) : group_df[j].player_count <= group_df[i].player_count}

\* C2: the selected record is a member with the highest player_count; among
\* those, one with the highest name_score; among those, the one with the
\* smallest raw name; a single member with the highest count is returned
\* without scoring.
C2_Selection ==
  pc = "selected" =>
    \E i \in TopCandidates :
       /\ canonical.high_school_original = group_df[i].high_school_original
       /\ canonical.player_count = group_df[i].player_count
       /\ Cardinality(TopCandidates) = 1 => canonical = group_df[i]
       /\ \A j \in TopCandidates :
            LET a == group_df[i].high_school_original
                b == group_df[j].high_school_original
            IN \/ C2_NameScore(a) > C2_NameScore(b)
               \/ C2_NameScore(a) = C2_NameScore(b) /\ (a = b \/ StrLess(a, b))

C2_Witness ==
  /\ pc = "selected"
  /\ Cardinality(TopCandidates) = 2
  /\ Len(group_df) = 3
  /\ canonical.high_school_original = group_df[3].high_school_original
  /\ \E j \in TopCandidates :
       /\ j # 3
       /\ C2_NameScore(group_df[j].high_school_original)
            = C2_NameScore(group_df[3].high_school_original)

\* The orders the rows of the group can be handed in.
RowOrders(df) ==
  {[i \in 1..Len(df) |-> df[p[i]]] :
     p \in {q \in [1..Len(df) -> 1..Len(df)] :
              \A i, j \in 1..Len(df) : i # j => q[i] # q[j]}}

\* C3: the selected record does not depend on the order of the rows.
C3_OrderIndependent ==
  pc = "selected" =>
    \A df \in RowOrders(group_df) : select_canonical_name(df) = canonical

C3_Witness ==
  /\ pc = "selected"
  /\ Len(group_df) = 3
  /\ \A i \in 1..3 : group_df[i].player_count = group_df[1].player_count
  /\ score_name(group_df[1].high_school_original)
       = score_name(group_df[3].high_school_original)
  /\ canonical.high_school_original = group_df[3].high_school_original

\* C4: among the members tied on the highest player_count, a name with 'High
\* School' is always preferred to one that uses 'HS' or 'H.S.' instead,
\* whatever the periods in either name.
C4_HighSchoolPreferred ==
  pc = "selected" =>
    \A i, j \in TopCandidates :
       LET a == group_df[i].high_school_original
           b == group_df[j].high_school_original
       IN (/\ Contains(a, <<"H", "i", "g", "h", " ", "S", "c", "h", "o", "o", "l">>)
           /\ ~Contains(b, <<"H", "i", "g", "h", " ", "S", "c", "h", "o", "o", "l">>)
           /\ (Contains(b, <<"H", "S">>) \/ Contains(b, <<"H", ".", "S", ".">>)))
          => canonical.high_school_original # b

(***************************************************************************)
(* Claims about the duplicates and the mapping (Spec)                      *)
(***************************************************************************)

\* The rows of a frame, as the set of their positions.
Rows(df) == 1..Len(df)

\* C5: identify_duplicates partitions the records of country 'USA' by
\* (normalized key, state): a record is output iff another USA record has the
\* same normalized name and the same state, no record is output twice, and no
\* record of another country is output.
C5_Partition ==
  pc # "start" =>
    /\ \A i \in Rows(schools_df) :
         (\E d \in Rows(duplicates) :
             duplicates[d].high_school_original = schools_df[i].high_school_original)
         <=>
         /\ schools_df[i].country = <<"U", "S", "A">>
         /\ \E k \in Rows(schools_df) \ {i} :
              /\ schools_df[k].country = <<"U", "S", "A">>
              /\ normalize_hs_name(schools_df[k].high_school_original)
                   = normalize_hs_name(schools_df[i].high_school_original)
              /\ schools_df[k].state = schools_df[i].state
    /\ \A d, e \in Rows(duplicates) :
         duplicates[d].high_school_original = duplicates[e].high_school_original
           => d = e
    /\ \A d \in Rows(duplicates) : \E i \in Rows(schools_df) : duplicates[d] = schools_df[i]

\* C6: every member of a duplicate group (two rows or more with the same
\* normalized name and state) of the duplicates file is the
\* high_school_original of exactly one mapping row, and the row of the
\* selected canonical name maps it to itself.
C6_MappingComplete ==
  pc \in {"mapped", "key_error"} =>
    \A i \in Rows(duplicates_file) :
       (\E j \in Rows(duplicates_file) \ {i} :
           /\ duplicates_file[j].high_school_normalized
                = duplicates_file[i].high_school_normalized
           /\ duplicates_file[j].state = duplicates_file[i].state)
       =>
       /\ Cardinality({m \in Rows(mappings) :
             /\ mappings[m].high_school_original
                  = duplicates_file[i].high_school_original
             /\ mappings[m].source = "duplicate_resolution"}) = 1
       /\ \A m \in Rows(mappings) :
            mappings[m].high_school_original = duplicates_file[i].high_school_original
            => \E c \in Rows(mappings) :
                 /\ mappings[c].high_school_original = mappings[m].high_school_standardized
                 /\ mappings[c].high_school_standardized = mappings[m].high_school_standardized

\* C11: records with a missing state are grouped like those of any other
\* state: two USA records with the same normalized name and both without a
\* state are reported as a duplicate group, and both receive a
\* duplicate_resolution mapping row.
C11_MissingStateGrouped ==
  \A i, k \in Rows(schools_df) :
     (/\ i # k
      /\ schools_df[i].country = <<"U", "S", "A">>
      /\ schools_df[k].country = <<"U", "S", "A">>
      /\ isna(schools_df[i].state)
      /\ isna(schools_df[k].state)
      /\ normalize_hs_name(schools_df[i].high_school_original)
           = normalize_hs_name(schools_df[k].high_school_original))
     =>
     /\ pc # "start" =>
          \E d \in Rows(duplicates) :
             duplicates[d].high_school_original = schools_df[i].high_school_original
     /\ pc \in {"no_file", "key_error", "mapped"} =>
          \E m \in Rows(mappings) :
             /\ mappings[m].high_school_original = schools_df[i].high_school_original
             /\ mappings[m].source = "duplicate_resolution"

\* The rows of the duplicates file in the group of its row r: those with the
\* same normalized name and the same state.
FileGroup(r) ==
  {x \in Rows(duplicates_file) :
     /\ duplicates_file[x].high_school_normalized
          = duplicates_file[r].high_school_normalized
     /\ duplicates_file[x].state = duplicates_file[r].state}

\* The row of the duplicates file a mapping row was made from.
FileRow(m) ==
  CHOOSE r \in Rows(duplicates_file) :
     duplicates_file[r].high_school_original = mappings[m].high_school_original

\* C14: in the output of create_duplicate_mapping the rows made from one
\* (normalized name, state) group all carry the same high_school_standardized;
\* it is the original name of a member of that group that has the group's
\* highest player_count, and the row of that member maps the name to itself.
C14_OneCanonicalPerGroup ==
  pc = "mapped" =>
    \A m \in Rows(mappings) :
       /\ \E r \in Rows(duplicates_file) :
             duplicates_file[r].high_school_original = mappings[m].high_school_original
       /\ \E c \in FileGroup(FileRow(m)) :
             /\ duplicates_file[c].high_school_original
                  = mappings[m].high_school_standardized
             /\ duplicates_file[c].state = mappings[m].state
             /\ \A x \in FileGroup(FileRow(m)) :
                  duplicates_file[x].player_count <= duplicates_file[c].player_count
             /\ mappings[m].canonical_player_count = duplicates_file[c].player_count
       /\ \A n \in Rows(mappings) :
             FileRow(n) \in FileGroup(FileRow(m))
             => mappings[n].high_school_standardized
                  = mappings[m].high_school_standardized
       /\ \E s \in Rows(mappings) :
             /\ mappings[s].high_school_original = mappings[m].high_school_standardized
             /\ mappings[s].high_school_standardized
                  = mappings[m].high_school_standardized

\* A group whose members have different counts has been mapped: the member
\* with the lower count is mapped to the other one, which maps to itself.
C14_Witness ==
  /\ pc = "mapped"
  /\ \E m, s \in Rows(mappings) :
        /\ mappings[m].high_school_original # mappings[m].high_school_standardized
        /\ mappings[s].high_school_original = mappings[m].high_school_standardized
        /\ mappings[s].high_school_standardized = mappings[s].high_school_original
        /\ mappings[m].player_count < mappings[s].player_count
        /\ mappings[m].state = mappings[s].state

(***************************************************************************)
(* Claims about the groups given to select_canonical_name (SpecCalls)      *)
(***************************************************************************)

\* C13: select_canonical_name called on a group with no row fails with an
\* error and returns neither a row nor a placeholder, and every group that
\* create_duplicate_mapping passes to it has two rows or more.
C13_EmptyGroupFails ==
  /\ (group_df = <<>> /\ canonical # Unset) => canonical = IndexError
  /\ pc \in {"mapped", "key_error"}
       => \A c \in Rows(calls) : Len(calls[c]) >= 2

\* The call on a group with no row has raised IndexError, and the mapping was
\* built from a reviewed file that holds a group of one row next to a group
\* of two: the loop called select_canonical_name once.
C13_Witness ==
  /\ group_df = <<>>
  /\ canonical = IndexError
  /\ pc = "mapped"
  /\ Len(calls) = 1
  /\ Len(duplicates_file) = 3
  /\ \E r \in Rows(duplicates_file) : Cardinality(FileGroup(r)) = 1

(***************************************************************************)
(* Claims about the final mapping table (SpecCurated)                      *)
(***************************************************************************)

\* C12: the final mapping table is the duplicate_resolution rows followed by
\* the prep_school_curated rows: it has as many rows as the two sources
\* together, every row of either source is in it with the values it had, and
\* a name that both sources map has both its rows in the table.
C12_PlainConcatenation ==
  pc = "mapped" =>
    LET prep_mapping == create_prep_school_mapping
    IN /\ Len(all_mappings) = Len(mappings) + Len(prep_mapping)
       /\ \A i \in Rows(mappings) :
            [c \in DOMAIN mappings[i] |-> all_mappings[i][c]] = mappings[i]
       /\ \A j \in Rows(prep_mapping) :
            [c \in DOMAIN prep_mapping[j] |-> all_mappings[Len(mappings) + j][c]]
              = prep_mapping[j]

\* The table holds two rows for one original name, from the two sources and
\* with different standardized names.
C12_Witness ==
  /\ pc = "mapped"
  /\ \E i \in Rows(mappings) :
        \E j \in (Len(mappings) + 1)..Len(all_mappings) :
           /\ all_mappings[i].high_school_original
                = all_mappings[j].high_school_original
           /\ all_mappings[i].high_school_standardized
                # all_mappings[j].high_school_standardized
           /\ all_mappings[i].source = "duplicate_resolution"
           /\ all_mappings[j].source = "prep_school_curated"

(***************************************************************************)
(* Claims about download_from_urban_api (SpecDl)                           *)
(***************************************************************************)

\* What holds of the download at every moment.
DownloadSafe ==
  /\ Len(requests) <= max_pages
  /\ \A i \in 1..Len(requests) : requests[i] = i - 1
  /\ pc = "loop" => (Len(requests) = page /\ last_response \in {"none", "next"})
  /\ pc # "loop" => (last_response \in StopResponses \/ Len(requests) = max_pages)
  /\ pc = "returned" =>
       /\ received > 0 => result = [kind |-> "DataFrame", rows |-> received]
       /\ received = 0 => result.kind = "None"

\* C15: download_from_urban_api terminates after at most 100 page requests:
\* it asks for the pages 0, 1, 2, ... in this order and for none of them
\* twice, makes no request after a response other than 200, an exception, a
\* response with no or empty 'results' or one with no or empty 'next', and
\* then returns the records of the pages before, or None exactly when there
\* is no record.
C15_Terminates ==
  /\ []DownloadSafe
  /\ [][(last_response \in StopResponses) => (requests' = requests)]_vars
  /\ <>(pc = "returned")

\* The 100th request raised an exception after 99 pages of records, and the
\* records of these pages were returned.
C15_Witness ==
  /\ pc = "returned"
  /\ Len(requests) = max_pages
  /\ last_response = "exception"
  /\ result.kind = "DataFrame"
  /\ result.rows >= max_pages - 1

====
